---- MODULE Spec2Model ----
(***************************************************************************)
(* x-ray-crawler: the crawl run of lib/index.js (Crawler.prototype.crawl,  *)
(* onresponse, schedule, onjobfinish, canRequest) over the job queue       *)
(* created by enqueue(fn, options).                                        *)
(*                                                                         *)
(* The queue itself (package `enqueue`) is not part of lib/index.js; its   *)
(* behaviour (QSubmit, QStartNext, QFinish) is taken from the JobQueue     *)
(* section of the specification.                                           *)
(*                                                                         *)
(* Strings that the code inspects (discovered candidates) are sequences of *)
(* one-character strings, so that canRequest parses them.                  *)
(***************************************************************************)
EXTENDS Integers, Sequences, FiniteSets, TLC

\* ------------------------------------------------------------------ bounds

\* largest finite value given to .limit()
MaxLimit == 3
\* largest value given to .concurrency()
MaxConcurrency == 2
\* throttle(R, W): largest R, and W in ticks
MaxRequests == 2
Window == 2
\* largest value given to .delay(d, d), in ticks
MaxDelay == 1
\* the clock is followed up to this tick
MaxTime == 3

\* state.limit default: `limit: Infinity`; --Infinity is Infinity
Infinity == 999

\* ------------------------------------------------------- discovered values

\* a value returned by the discovery function: a string, or something else
Str(cs) == [isString |-> TRUE, chars |-> cs]

\* a candidate that is not a string (a number, null, ...)
NonString == [isString |-> FALSE, chars |-> <<>>]

\* "h:a", "h:b", "h:c": absolute identifiers with a scheme
UrlA == Str(<<"h", ":", "a">>)

UrlB == Str(<<"h", ":", "b">>)

UrlC == Str(<<"h", ":", "c">>)

\* "n-a": no scheme separator at all ("not-a-url")
NotAUrl == Str(<<"n", "-", "a">>)

\* "/a": a relative path
RelPath == Str(<<"/", "a">>)

\* ":a": a separator with nothing before it
NoScheme == Str(<<":", "a">>)

\* characters of the class [a-z0-9.+-] of url.parse's protocol pattern
SchemeChar == {"h", "n", "a", "b", "c", "-"}

\* length of the match of /^([a-z0-9.+-]+:)/ starting the scan at i; 0 = no match
RECURSIVE ScanScheme(_, _)
ScanScheme(cs, i) ==
    IF i > Len(cs) THEN 0
    ELSE IF cs[i] = ":" THEN (IF i > 1 THEN i ELSE 0)
    ELSE IF cs[i] \in SchemeChar THEN ScanScheme(cs, i + 1)
    ELSE 0

\* parse(url).protocol: the matched scheme with its colon, or <<>> (null)
Protocol(cs) == SubSeq(cs, 1, ScanScheme(cs, 1))

\* canRequest with the type test dropped and every string accepted
CanRequest_AnyString(url) == url.isString

\* canRequest(url): 'string' == typeof url ? parse(url).protocol : false
CanRequest(url) ==
    IF url.isString THEN Protocol(url.chars) # <<>> ELSE FALSE

\* urls.filter(canRequest)
RECURSIVE Filter(_)
Filter(urls) ==
    IF urls = <<>> THEN <<>>
    ELSE IF CanRequest(Head(urls)) THEN <<Head(urls)>> \o Filter(Tail(urls))
    ELSE Filter(Tail(urls))

\* ------------------------------------------------------ discovery functions

\* the discovery functions a run is configured with:
\*   "default"  state.paginate as constructed: function(){} (returns undefined)
\*   "scenario" a -> [b, not-a-url, c], nothing afterwards
\*   "always"   one new candidate on every response (a -> b -> c -> a ...)
\*   "fan"      duplicates, non-strings and relative paths mixed in
\*   "burst"    every response yields three valid candidates
PaginateFns == {"default", "scenario", "always", "fan", "burst"}

\* the discovery functions whose frontier is finite without a limit
FiniteFrontier == {"default", "scenario", "fan"}

\* paginate($, ctx), after [].concat(next_page); <<>> also stands for a falsy result
Paginate(p, url) ==
    CASE p = "default" -> <<>>
      [] p = "scenario" ->
            IF url = UrlA THEN <<UrlB, NotAUrl, UrlC>> ELSE <<>>
      [] p = "always" ->
            IF url = UrlA THEN <<UrlB>>
            ELSE IF url = UrlB THEN <<UrlC>>
            ELSE <<UrlA>>
      [] p = "fan" ->
            IF url = UrlA THEN <<UrlB, NonString, UrlC, UrlB>>
            ELSE IF url = UrlB THEN <<RelPath, UrlC, NoScheme>>
            ELSE <<>>
      [] p = "burst" -> <<UrlA, UrlB, UrlC>>

\* -------------------------------------------------------------------- state

VARIABLES
    cfg,        \* this.state as read when crawl() starts
    pc,         \* "idle" before crawl(), "running" after
    limit,      \* crawl's local `limit` (RemainingLimit)
    scheduled,  \* crawl's local `scheduled` (InFlightCounter)
    timers,     \* URLs inside a pending setTimeout of schedule()
    accepted,   \* queue: number of submissions accepted so far
    waiting,    \* queue: job ids waiting for a slot, FIFO
    jobs,       \* queue: the accepted jobs, by id, with what was observed of each
    rejected,   \* number of submissions the queue returned false for
    nsched,     \* number of discovered URLs that entered a scheduling delay
    doneCount,  \* number of invocations of done()
    get,        \* one call of Crawler.prototype.get, step by step
    now,        \* the clock, in ticks
    lim,        \* the rate limiter's window: its start and the starts granted
    dues,       \* for each pending timer, the tick it is due at
    slog        \* for each URL scheduled: when, due when, in which window

vars == <<cfg, pc, limit, scheduled, timers, accepted, waiting, jobs,
          rejected, nsched, doneCount, get, now, lim, dues, slog>>

\* a job as the queue accepts it
NewJob(url) ==
    [url |-> url, st |-> "queued", hang |-> FALSE, drv |-> "idle",
     result |-> "none", errs |-> 0, errUrl |-> NonString, resps |-> 0,
     discs |-> 0, at |-> 0]

JobIds == DOMAIN jobs

Running(js) == {j \in DOMAIN js : js[j].st = "running"}

\* a paginate function is always a function object, hence truthy
Truthy(p) == p \in PaginateFns

\* the limit never set up: both the local and the queue's stay unbounded
LimitAtStart_Unbounded(c) == Infinity

\* var limit = this.paginate() ? this.limit() : 1
LimitAtStart(c) == IF Truthy(c.paginate) THEN c.limit ELSE 1

\* --limit
Dec(l) == IF l = Infinity THEN Infinity ELSE l - 1

\* ------------------------------------------------------- the run's mutables

\* everything crawl() and the queue mutate, as one value the handlers transform
Cur ==
    [limit |-> limit, scheduled |-> scheduled, timers |-> timers,
     accepted |-> accepted, waiting |-> waiting, jobs |-> jobs,
     rejected |-> rejected, nsched |-> nsched, doneCount |-> doneCount,
     lim |-> lim, dues |-> dues, slog |-> slog]

Commit(s) ==
    /\ limit' = s.limit
    /\ scheduled' = s.scheduled
    /\ timers' = s.timers
    /\ accepted' = s.accepted
    /\ waiting' = s.waiting
    /\ jobs' = s.jobs
    /\ rejected' = s.rejected
    /\ nsched' = s.nsched
    /\ doneCount' = s.doneCount
    /\ lim' = s.lim
    /\ dues' = s.dues
    /\ slog' = s.slog

\* ------------------------------------------------ JobQueue (enqueue package)

\* options.limit: the value of `limit` when the queue is set up
QLimit == LimitAtStart(cfg)

\* options that pass the limit where the concurrency belongs
QConcurrency_UsesLimit == LimitAtStart(cfg)

\* options.concurrency: this.concurrency()
QConcurrency == cfg.concurrency

\* start the first waiting job if a slot is free: fn(url, next), i.e.
\* self.get(url, next); h tells whether the driver will ever call back
QStartNext(s, h) ==
    IF s.waiting # <<>> /\ Cardinality(Running(s.jobs)) < QConcurrency
    THEN [s EXCEPT !.waiting = Tail(@),
                   !.jobs[Head(s.waiting)].st = "running",
                   !.jobs[Head(s.waiting)].drv = "busy",
                   !.jobs[Head(s.waiting)].hang = h,
                   !.jobs[Head(s.waiting)].at = now]
    ELSE s

\* queue(url, callback): false once `limit` submissions were accepted,
\* otherwise the job is accepted and started or left waiting
QSubmit(s, url, h) ==
    IF s.accepted >= QLimit
    THEN [ok |-> FALSE, s |-> s]
    ELSE [ok |-> TRUE,
          s |-> QStartNext([s EXCEPT !.accepted = @ + 1,
                                     !.jobs = Append(@, NewJob(url)),
                                     !.waiting = Append(@, Len(s.jobs) + 1)], h)]

\* ------------------------------------------------------------ crawl closures

\* ./rate-limit: throttle() -> the wait, and the limiter's window afterwards.
\* Below `requests` starts in the current window: 0, and the start is recorded;
\* otherwise the time left until the window resets. Unbounded: always 0.
Consume(s) ==
    IF cfg.throttle.requests = Infinity
    THEN [wait |-> 0, lim |-> s.lim]
    ELSE LET cur == IF now >= s.lim.start + cfg.throttle.rate
                    THEN [start |-> now, count |-> 0]
                    ELSE s.lim
         IN  IF cur.count < cfg.throttle.requests
             THEN [wait |-> 0, lim |-> [cur EXCEPT !.count = @ + 1]]
             ELSE [wait |-> cur.start + cfg.throttle.rate - now, lim |-> cur]

\* ./range: delay() -> a value of [from, to]; the one value when from = to
DelayNext == cfg.delay.from

\* var wait = throttle() + delay()
Wait(s) == Consume(s).wait + DelayNext

\* setTimeout(function() { queue(url, ...) }, wait), after throttle() was called
SetTimer(s, url) ==
    [s EXCEPT !.timers = Append(@, url),
              !.dues = Append(@, now + Wait(s)),
              !.lim = Consume(s).lim,
              !.slog = Append(@, [at |-> now, due |-> now + Wait(s),
                                  win |-> Consume(s).lim.start]),
              !.nsched = @ + 1]

\* schedule(url) that forgets scheduled++
Schedule_NoIncrement(s, url) ==
    IF Dec(s.limit) <= 0
    THEN [s EXCEPT !.limit = Dec(@)]
    ELSE SetTimer([s EXCEPT !.limit = Dec(@)], url)

\* schedule(url) that skips a URL already waiting or submitted
Schedule_Dedup(s, url) ==
    IF Dec(s.limit) <= 0
    THEN [s EXCEPT !.limit = Dec(@)]
    ELSE IF \/ \E i \in DOMAIN s.timers : s.timers[i] = url
            \/ \E j \in DOMAIN s.jobs : s.jobs[j].url = url
    THEN [s EXCEPT !.limit = Dec(@)]
    ELSE SetTimer([s EXCEPT !.limit = Dec(@), !.scheduled = @ + 1], url)

\* schedule(url) that tests the limit first and counts only what it schedules
Schedule_TestThenDecrement(s, url) ==
    IF s.limit <= 1
    THEN s
    ELSE SetTimer([s EXCEPT !.limit = Dec(@), !.scheduled = @ + 1], url)

\* schedule(url): if (--limit <= 0) return; var wait = throttle() + delay();
\* scheduled++; setTimeout(..., wait)
Schedule(s, url) ==
    IF Dec(s.limit) <= 0
    THEN [s EXCEPT !.limit = Dec(@)]
    ELSE SetTimer([s EXCEPT !.limit = Dec(@), !.scheduled = @ + 1], url)

\* a loop over the urls from the last to the first
RECURSIVE ForEachSchedule_Backwards(_, _)
ForEachSchedule_Backwards(s, urls) ==
    IF urls = <<>> THEN s
    ELSE ForEachSchedule_Backwards(Schedule(s, urls[Len(urls)]),
                                   SubSeq(urls, 1, Len(urls) - 1))

\* urls.forEach(schedule)
RECURSIVE ForEachSchedule(_, _)
ForEachSchedule(s, urls) ==
    IF urls = <<>> THEN s
    ELSE ForEachSchedule(Schedule(s, Head(urls)), Tail(urls))

\* onresponse(ctx) for job j: emit 'response', paginate, filter, schedule
OnResponse(s, j) ==
    LET emitted == [s EXCEPT !.jobs[j].resps = @ + 1, !.jobs[j].discs = @ + 1]
        next_page == Paginate(cfg.paginate, s.jobs[j].url)
    IN  ForEachSchedule(emitted, Filter(next_page))

\* the error branch: err.url = url; self.emit('error', err)
OnError(s, j) ==
    [s EXCEPT !.jobs[j].errs = @ + 1, !.jobs[j].errUrl = s.jobs[j].url]

\* onjobfinish whose error branch falls through to onresponse
OnJobFinish_ErrorFallsThrough(s, j, err) ==
    LET s1 == IF err THEN OnResponse(OnError(s, j), j) ELSE OnResponse(s, j)
    IN  [s1 EXCEPT !.scheduled = @ - 1,
                   !.doneCount = IF s1.scheduled - 1 <= 0 THEN @ + 1 ELSE @]

\* onjobfinish that counts the job down before its response is handled
OnJobFinish_DecrementFirst(s, j, err) ==
    LET s0 == [s EXCEPT !.scheduled = @ - 1,
                        !.doneCount = IF s.scheduled - 1 <= 0 THEN @ + 1 ELSE @]
    IN  IF err THEN OnError(s0, j) ELSE OnResponse(s0, j)

\* onjobfinish that returns right after emitting the error
OnJobFinish_ErrorReturnsEarly(s, j, err) ==
    IF err THEN OnError(s, j)
    ELSE LET s1 == OnResponse(s, j)
         IN  [s1 EXCEPT !.scheduled = @ - 1,
                        !.doneCount = IF s1.scheduled - 1 <= 0 THEN @ + 1 ELSE @]

\* onjobfinish(url)(err, ctx); if (--scheduled <= 0) return done()
OnJobFinish(s, j, err) ==
    LET s1 == IF err THEN OnError(s, j) ELSE OnResponse(s, j)
    IN  [s1 EXCEPT !.scheduled = @ - 1,
                   !.doneCount = IF s1.scheduled - 1 <= 0 THEN @ + 1 ELSE @]

\* the queue's completion of running job j: its callback fires once with the
\* result or the error, then the next waiting job starts
QFinish(s, j, result, h) ==
    LET ended == [s EXCEPT !.jobs[j].st = "done", !.jobs[j].result = result]
    IN  QStartNext(OnJobFinish(ended, j, result # "ok"), h)

\* the start inputs worth distinguishing: only when a job is waiting to start
HangChoices(s) == IF s.waiting # <<>> THEN BOOLEAN ELSE {FALSE}

\* ------------------------------------------------- Crawler.prototype.get

\* what ctx.body, or the value a driver calls back with, can be: nothing, the
\* empty string, a body, or ("ctx") the context object itself
BodyValues == {"undefined", "", "B1", "B2"}

ResultValues == BodyValues \cup {"ctx"}

\* the err a driver calls back with: none, or an error
ErrValues == {"null", "E"}

\* JavaScript truthiness of these values
TruthyValue(v) == v \notin {"undefined", "", "null"}

\* before get() is called
GetIdle ==
    [pc |-> "idle", url |-> NonString, pre |-> "undefined", body |-> "undefined",
     bodyAtDone |-> "undefined", err |-> "null", res |-> "undefined",
     requestHooks |-> 0, driverCalls |-> 0, responseHooks |-> 0,
     fnCalls |-> 0, fnErr |-> "null", fnCtx |-> FALSE, assigned |-> FALSE]

\* done(err, res) that compares the result with the body instead of the context
GetDone_ComparesBody(g, err, res) ==
    IF TruthyValue(err)
    THEN [g EXCEPT !.pc = "returned", !.err = err, !.res = res,
                   !.bodyAtDone = g.body, !.fnCalls = @ + 1, !.fnErr = err]
    ELSE [g EXCEPT !.pc = "returned", !.err = err, !.res = res,
                   !.bodyAtDone = g.body,
                   !.assigned = (res # g.body),
                   !.body = IF res # g.body THEN res ELSE @,
                   !.responseHooks = @ + 1,
                   !.fnCalls = @ + 1, !.fnCtx = TRUE]

\* done(err, res): if (err) return fn(err);
\* if (res && res != ctx) ctx.body = res; response(ctx.response); fn(null, ctx)
GetDone(g, err, res) ==
    IF TruthyValue(err)
    THEN [g EXCEPT !.pc = "returned", !.err = err, !.res = res,
                   !.bodyAtDone = g.body, !.fnCalls = @ + 1, !.fnErr = err]
    ELSE [g EXCEPT !.pc = "returned", !.err = err, !.res = res,
                   !.bodyAtDone = g.body,
                   !.assigned = (TruthyValue(res) /\ res # "ctx"),
                   !.body = IF TruthyValue(res) /\ res # "ctx" THEN res ELSE @,
                   !.responseHooks = @ + 1,
                   !.fnCalls = @ + 1, !.fnCtx = TRUE]

\* a get() that always goes to the driver
ShortCircuit_Never(body) == FALSE

\* if (ctx.body): short circuit the driver
ShortCircuit(body) == TruthyValue(body)

\* get(url, fn) up to the driver call: ctx = context(); request(ctx.request),
\* after which ctx.body is `pre`; then done(null, ctx) or the driver
GetCall(url, pre) ==
    /\ get.pc = "idle"
    /\ LET g == [get EXCEPT !.url = url, !.pre = pre, !.body = pre,
                            !.requestHooks = @ + 1]
       IN  get' = IF ShortCircuit(g.body)
                  THEN GetDone(g, "null", "ctx")
                  ELSE [g EXCEPT !.pc = "driver", !.driverCalls = @ + 1]
    /\ UNCHANGED <<cfg, pc, limit, scheduled, timers, accepted, waiting, jobs,
                   rejected, nsched, doneCount, now, lim, dues, slog>>

\* the driver, having left ctx.body as `set`, calls back: done(err, res)
DriverReturn(set, err, res) ==
    /\ get.pc = "driver"
    /\ get' = GetDone([get EXCEPT !.body = set], err, res)
    /\ UNCHANGED <<cfg, pc, limit, scheduled, timers, accepted, waiting, jobs,
                   rejected, nsched, doneCount, now, lim, dues, slog>>

\* ------------------------------------------------------------------ actions

SeedUrl == UrlA

\* state.throttle as constructed: rate_limit(), no bound on the starts
NoThrottle == [requests |-> Infinity, rate |-> 0]

\* state.delay as constructed: range(), no delay
NoDelay == [from |-> 0, to |-> 0]

\* everything but the configuration, before crawl() and get() are called
Fresh ==
    /\ pc = "idle"
    /\ limit = 0
    /\ scheduled = 0
    /\ timers = <<>>
    /\ accepted = 0
    /\ waiting = <<>>
    /\ jobs = <<>>
    /\ rejected = 0
    /\ nsched = 0
    /\ doneCount = 0
    /\ get = GetIdle
    /\ now = 0
    /\ lim = [start |-> 0, count |-> 0]
    /\ dues = <<>>
    /\ slog = <<>>

Configs ==
    {c \in [url : {SeedUrl},
            limit : (0..MaxLimit) \cup {Infinity},
            concurrency : 1..MaxConcurrency,
            timeout : BOOLEAN,
            throws : BOOLEAN,
            paginate : PaginateFns,
            throttle : {NoThrottle},
            delay : {NoDelay}] :
        c.limit = Infinity => c.paginate \in FiniteFrontier}

Init ==
    /\ cfg \in Configs
    /\ Fresh

\* crawl(done): scheduled++; queue(url, onjobfinish(url)) -- result not looked at
Crawl(h) ==
    /\ pc = "idle"
    /\ pc' = "running"
    /\ LET s0 == [Cur EXCEPT !.limit = LimitAtStart(cfg), !.scheduled = @ + 1]
           r == QSubmit(s0, cfg.url, h)
       IN  Commit([r.s EXCEPT !.rejected = IF r.ok THEN @ ELSE @ + 1])
    /\ UNCHANGED <<cfg, get, now>>

\* remove element i of a sequence
Remove(seq, i) == SubSeq(seq, 1, i - 1) \o SubSeq(seq, i + 1, Len(seq))

\* the setTimeout callback of schedule(): queue(url, ...); if (!queued) return
TimerFire(i, h) ==
    /\ i \in DOMAIN timers
    /\ dues[i] <= now
    /\ LET s0 == [Cur EXCEPT !.timers = Remove(@, i), !.dues = Remove(@, i)]
           r == QSubmit(s0, timers[i], h)
       IN  Commit([r.s EXCEPT !.rejected = IF r.ok THEN @ ELSE @ + 1])
    /\ UNCHANGED <<cfg, pc, get, now>>

\* the driver calls back without error: get's done(null, res) -> fn(null, ctx)
DriverSuccess(j, h) ==
    /\ j \in JobIds
    /\ jobs[j].st = "running" /\ ~jobs[j].hang
    /\ Commit(QFinish([Cur EXCEPT !.jobs[j].drv = "finished"], j, "ok", h))
    /\ UNCHANGED <<cfg, pc, get, now>>

\* the driver calls back with an error: get's done(err) -> fn(err)
DriverFail(j, h) ==
    /\ j \in JobIds
    /\ jobs[j].st = "running" /\ ~jobs[j].hang
    /\ Commit(QFinish([Cur EXCEPT !.jobs[j].drv = "finished"], j, "error", h))
    /\ UNCHANGED <<cfg, pc, get, now>>

\* the queue's timeout of a running job: the callback gets a timeout error,
\* the driver call itself is left running
Timeout(j, h) ==
    /\ cfg.timeout
    /\ j \in JobIds
    /\ jobs[j].st = "running"
    /\ Commit(QFinish(Cur, j, "timeout", h))
    /\ UNCHANGED <<cfg, pc, get, now>>

\* a queue that passes the late result on to the callback again
LateComplete_NotDiscarded(j) ==
    /\ j \in JobIds
    /\ jobs[j].st = "done" /\ jobs[j].drv = "busy" /\ ~jobs[j].hang
    /\ Commit(OnJobFinish([Cur EXCEPT !.jobs[j].drv = "finished"], j, FALSE))
    /\ UNCHANGED <<cfg, pc, get, now>>

\* the driver of a timed-out job calls back late: the queue discards it
LateComplete(j) ==
    /\ j \in JobIds
    /\ jobs[j].st = "done" /\ jobs[j].drv = "busy" /\ ~jobs[j].hang
    /\ jobs' = [jobs EXCEPT ![j].drv = "finished"]
    /\ UNCHANGED <<cfg, pc, limit, scheduled, timers, accepted, waiting,
                   rejected, nsched, doneCount, get, now, lim, dues, slog>>

Next ==
    \/ \E h \in BOOLEAN : Crawl(h)
    \/ \E i \in DOMAIN timers : \E h \in BOOLEAN : TimerFire(i, h)
    \/ \E j \in JobIds : \E h \in HangChoices(Cur) : DriverSuccess(j, h)
    \/ \E j \in JobIds : \E h \in HangChoices(Cur) : DriverFail(j, h)
    \/ \E j \in JobIds : \E h \in HangChoices(Cur) : Timeout(j, h)
    \/ \E j \in JobIds : LateComplete(j)

Spec == Init /\ [][Next]_vars

\* one call of get(), for every url, hook effect and driver callback
GetInit ==
    /\ cfg = [url |-> SeedUrl, limit |-> Infinity, concurrency |-> 1,
              timeout |-> FALSE, throws |-> FALSE, paginate |-> "default",
              throttle |-> NoThrottle, delay |-> NoDelay]
    /\ Fresh

GetNext ==
    \/ \E url \in {UrlA, UrlB, UrlC} : \E pre \in BodyValues : GetCall(url, pre)
    \/ \E set \in BodyValues : \E err \in ErrValues : \E res \in ResultValues :
          DriverReturn(set, err, res)

GetSpec == GetInit /\ [][GetNext]_vars

\* a tick of the clock: no timer is left overdue, and time is only followed
\* while the run has work pending
Tick ==
    /\ pc = "running"
    /\ now < MaxTime
    /\ timers # <<>> \/ \E j \in JobIds : jobs[j].st # "done"
    /\ \A i \in DOMAIN dues : dues[i] > now
    /\ now' = now + 1
    /\ UNCHANGED <<cfg, pc, limit, scheduled, timers, accepted, waiting, jobs,
                   rejected, nsched, doneCount, get, lim, dues, slog>>

\* runs with throttle(R, W) and delay(d, d) configured
ThrottleConfigs ==
    {c \in [url : {SeedUrl},
            limit : (2..MaxLimit) \cup {Infinity},
            concurrency : 1..MaxConcurrency,
            timeout : BOOLEAN,
            throws : {FALSE},
            paginate : {"fan", "burst"},
            throttle : [requests : 1..MaxRequests, rate : {Window}],
            delay : {[from |-> d, to |-> d] : d \in 0..MaxDelay}] :
        c.limit = Infinity => c.paginate \in FiniteFrontier}

ThrottleInit ==
    /\ cfg \in ThrottleConfigs
    /\ Fresh

ThrottleNext ==
    \/ Next
    \/ Tick

ThrottleSpec == ThrottleInit /\ [][ThrottleNext]_vars

\* ------------------------------------------------------------ derived views

Done == doneCount > 0

\* jobs whose fetch has started (self.get was called)
Fetched == {j \in JobIds : jobs[j].st # "queued"}

Outstanding == {j \in JobIds : jobs[j].st # "done"}

\* timers fire, configured timeouts fire, and a driver that does not hang
\* calls back: the event loop delivers every pending event
FairSpec ==
    /\ Spec
    /\ WF_vars(\E i \in DOMAIN timers : \E h \in BOOLEAN : TimerFire(i, h))
    /\ WF_vars(\E j \in JobIds : \E h \in BOOLEAN :
                   DriverSuccess(j, h) \/ DriverFail(j, h))
    /\ WF_vars(\E j \in JobIds : \E h \in BOOLEAN : Timeout(j, h))

\* the events the event loop is bound to deliver
Progress ==
    \/ \E i \in DOMAIN timers : \E h \in BOOLEAN : TimerFire(i, h)
    \/ \E j \in JobIds : \E h \in BOOLEAN :
          DriverSuccess(j, h) \/ DriverFail(j, h) \/ Timeout(j, h)

\* submissions made, jobs ended and driver calls returned so far
Measure ==
    accepted + rejected + Cardinality(JobIds \ Outstanding)
        + Cardinality({j \in JobIds : jobs[j].drv = "finished"})

\* a driver call that never completes while no timeout is configured
Stuck == ~cfg.timeout /\ \E j \in JobIds : jobs[j].st = "running" /\ jobs[j].hang

\* the job ended in an error: the driver failed or the queue timed it out
Errored(j) == jobs[j].result \in {"error", "timeout"}

AnyError == \E j \in JobIds : jobs[j].errs > 0

AllOk == \A j \in JobIds : jobs[j].result = "ok"

InvalidCandidates == {NotAUrl, RelPath, NoScheme, NonString}

\* ------------------------------------------------------------------- claims

\* C1: in any run, whatever the interleaving of completions, timeouts and
\* delay timers, done() is invoked at most once.
C1_DoneAtMostOnce == doneCount <= 1

C1_Witness ==
    /\ doneCount = 1
    /\ nsched >= 2
    /\ \E j \in JobIds : jobs[j].result = "timeout"
    /\ \E j \in JobIds : jobs[j].result = "ok"

\* C2: when done() has been invoked no job is queued or running and no
\* discovered URL waits in its delay, and no fetch starts afterwards.
C2_NeverPremature ==
    /\ [](Done => timers = <<>> /\ Outstanding = {} /\ waiting = <<>>)
    /\ [][Done => Cardinality(Fetched') = Cardinality(Fetched)]_vars

C2_Witness ==
    /\ Done
    /\ nsched >= 2
    /\ Cardinality(Fetched) >= 3
    /\ cfg.concurrency = 1

\* C3: every run eventually invokes done(), unless a driver call never
\* completes and no timeout is configured.
C3_EventuallyDone == (pc = "running") ~> (Done \/ Stuck)

\* C4: with a configured limit L the number of fetches started never exceeds L.
C4_FetchesAtMostLimit ==
    cfg.limit # Infinity => Cardinality(Fetched) <= cfg.limit

C4_Witness ==
    /\ cfg.paginate = "burst"
    /\ cfg.limit >= 2 /\ cfg.limit # Infinity
    /\ Cardinality(Fetched) = cfg.limit
    /\ limit <= 0
    /\ Done

\* C5: with a finite limit L and a discovery function that returns one new
\* valid candidate on every response, a run whose jobs all succeed ends, once
\* nothing is left to happen, with exactly L fetches and done() invoked.
C5_ExactlyLimitThenDone ==
    (/\ pc = "running"
     /\ cfg.paginate = "always" /\ cfg.limit # Infinity
     /\ \A j \in JobIds : jobs[j].result \in {"none", "ok"} /\ ~jobs[j].hang
     /\ ~ENABLED Next)
    => (Done /\ Cardinality(Fetched) = cfg.limit)

\* C6: when the queue rejects a submission, the increment of `scheduled` made
\* for that URL is undone at once: a rejected seed leaves the counter where it
\* was before crawl(), a rejected delayed URL leaves it one lower.
C6_RejectionDecrements ==
    [][rejected' > rejected =>
         scheduled' = (IF pc = "idle" THEN scheduled ELSE scheduled - 1)]_vars

\* C7: with a timeout configured, a job whose driver never completes ends with
\* a timeout error emitted with its URL, and the run still reaches done():
\* until done() is invoked a timer, a driver completion or a timeout is
\* pending, and every step adds to a count that a run bounds, so the pending
\* events run out only at done().
C7_TimeoutSurfaces ==
    /\ [](\A j \in JobIds :
            (jobs[j].hang /\ jobs[j].st = "done") =>
                /\ jobs[j].result = "timeout"
                /\ jobs[j].errs = 1 /\ jobs[j].errUrl = jobs[j].url)
    /\ []((cfg.timeout /\ ~Done /\ \E j \in JobIds : jobs[j].hang)
            => ENABLED Progress)
    /\ [][Measure' > Measure]_vars

C7_Witness ==
    /\ Done
    /\ \E j \in JobIds :
          jobs[j].hang /\ jobs[j].result = "timeout" /\ jobs[j].errs = 1
    /\ Len(jobs) >= 2

\* C8: a job that ends in an error (driver failure or timeout) has the error
\* signal emitted once, carrying its URL, no response signal and no discovery.
C8_ErrorSignalOnly ==
    \A j \in JobIds :
        Errored(j) =>
            /\ jobs[j].errs = 1 /\ jobs[j].errUrl = jobs[j].url
            /\ jobs[j].resps = 0 /\ jobs[j].discs = 0

C8_Witness ==
    /\ Done
    /\ Len(jobs) >= 2
    /\ \A j \in JobIds : jobs[j].result = "error" \/ (j = 1 /\ jobs[j].result = "ok")
    /\ \E j \in JobIds : jobs[j].result = "error" /\ jobs[j].errs = 1

\* C9: with `throws` set, once a job has failed no discovered URL is newly
\* scheduled.
C9_ThrowsStopsScheduling ==
    [][(cfg.throws /\ AnyError) => nsched' = nsched]_vars

\* C10: a candidate without a scheme, or that is no string, is never put in a
\* delay nor fetched and is never reported as an error, and it takes nothing
\* from the valid candidates: seed a with discovery [b, not-a-url, c] and a
\* limit of 3 or more fetches exactly a, b and c.
C10_InvalidDropped ==
    /\ \A i \in DOMAIN timers : timers[i] \notin InvalidCandidates
    /\ \A j \in JobIds :
          jobs[j].url \notin InvalidCandidates /\ jobs[j].errUrl \notin {NotAUrl, RelPath, NoScheme}
    /\ (cfg.paginate = "scenario" /\ cfg.limit >= 3 /\ Done /\ AllOk) =>
          /\ Len(jobs) = 3
          /\ {jobs[j].url : j \in JobIds} = {UrlA, UrlB, UrlC}

C10_Witness ==
    /\ cfg.paginate = "scenario" /\ cfg.limit = Infinity
    /\ Done /\ AllOk
    /\ Len(jobs) = 3

\* number of valid candidates the responses handled so far passed to schedule()
RECURSIVE ValidUpTo(_)
ValidUpTo(n) ==
    IF n = 0 THEN 0
    ELSE ValidUpTo(n - 1)
           + (IF jobs[n].discs > 0
              THEN Len(Filter(Paginate(cfg.paginate, jobs[n].url)))
              ELSE 0)

ValidHandled == ValidUpTo(Len(jobs))

\* number of accepted jobs for a URL
JobsFor(url) == Cardinality({j \in JobIds : jobs[j].url = url})

\* C11: the number of running jobs never exceeds the configured concurrency.
C11_RunningAtMostConcurrency == Cardinality(Running(jobs)) <= cfg.concurrency

C11_Witness ==
    /\ cfg.concurrency = MaxConcurrency
    /\ Cardinality(Running(jobs)) = cfg.concurrency
    /\ waiting # <<>>
    /\ accepted >= 4

\* the fetches started in the window of length W that opens at tick t
StartedIn(t) ==
    {j \in Fetched : t <= jobs[j].at /\ jobs[j].at < t + cfg.throttle.rate}

\* C12: with throttle(R, W), in any window of length W at most R requests
\* are started, counting every request of the run (the seed too), whatever
\* the discovery times, the delays and the queueing.
C12_AtMostRPerWindow ==
    \A t \in 0..MaxTime : Cardinality(StartedIn(t)) <= cfg.throttle.requests

\* C13: a run with no discovery function configured, once nothing is left to
\* happen, has made exactly one fetch and invoked done(), whatever the limit.
C13_NoDiscoveryOneFetch ==
    (cfg.paginate = "default" /\ pc = "running" /\ ~Stuck /\ ~ENABLED Next)
    => (Done /\ Cardinality(Fetched) = 1)

\* C14: discovered identifiers are not deduplicated: every valid candidate the
\* limit permits is scheduled, however often it was seen before, so a -> [b, c,
\* b], b -> [c] without a limit fetches b twice and c three times.
C14_NoDeduplication ==
    /\ pc = "running" =>
          nsched = (IF cfg.limit = Infinity \/ ValidHandled < cfg.limit
                    THEN ValidHandled
                    ELSE IF cfg.limit = 0 THEN 0 ELSE cfg.limit - 1)
    /\ (cfg.paginate = "fan" /\ cfg.limit = Infinity /\ Done /\ AllOk) =>
          /\ JobsFor(UrlA) = 1 /\ JobsFor(UrlB) = 2 /\ JobsFor(UrlC) = 3
          /\ Fetched = JobIds

C14_Witness ==
    /\ cfg.paginate = "fan" /\ cfg.limit = Infinity
    /\ Done /\ AllOk
    /\ JobsFor(UrlB) = 2 /\ JobsFor(UrlC) = 3

\* C15: `scheduled` is never negative and equals the number of outstanding
\* units: URLs in their delay plus jobs queued or running.
C15_CounterIsOutstanding ==
    /\ scheduled >= 0
    /\ scheduled = Len(timers) + Cardinality(Outstanding)

\* C16: the callback of an accepted job runs exactly once: a job that timed out
\* has one error signal, no response and no discovery, and the late completion
\* of its driver changes neither the counter nor any signal.
C16_CallbackOnce ==
    /\ [](\A j \in JobIds :
            /\ jobs[j].st = "done" => jobs[j].errs + jobs[j].resps = 1
            /\ jobs[j].result = "timeout" =>
                  jobs[j].errs = 1 /\ jobs[j].resps = 0 /\ jobs[j].discs = 0)
    /\ [][\A j \in JobIds :
            (jobs[j].st = "done" /\ jobs[j].drv = "busy"
                                 /\ jobs'[j].drv = "finished") =>
                /\ scheduled' = scheduled /\ doneCount' = doneCount
                /\ timers' = timers /\ nsched' = nsched
                /\ jobs' = [jobs EXCEPT ![j].drv = "finished"]]_vars

C16_Witness ==
    \E j \in JobIds :
        /\ jobs[j].result = "timeout" /\ jobs[j].drv = "finished"
        /\ jobs[j].errs = 1 /\ jobs[j].discs = 0
        /\ scheduled = Len(timers) + Cardinality(Outstanding)

\* C17 as stated: RemainingLimit goes down by exactly the number of URLs
\* accepted for scheduling and never below 0.
C17_LimitFrame ==
    /\ [](pc = "running" => limit >= 0)
    /\ [][(pc = "running" /\ cfg.limit # Infinity) =>
            limit - limit' = nsched' - nsched]_vars

\* C17 amended: `limit` goes down by one for every valid candidate handed to
\* schedule(), scheduled or suppressed, and by nothing else; it can fall
\* below 0.
C17_LimitCountsValidCandidates ==
    pc = "running" =>
        limit = (IF cfg.limit = Infinity THEN Infinity
                 ELSE cfg.limit - ValidHandled)

C17_Witness ==
    /\ pc = "running"
    /\ limit < 0
    /\ nsched = 0
    /\ ValidHandled = 3

\* C20: the candidates one response gets scheduled are a prefix of its valid
\* candidates, in the order discovery returned them.
C20_ScheduledIsPrefix ==
    [][\A j \in JobIds :
          (jobs[j].resps = 0 /\ jobs'[j].resps = 1) =>
              \E k \in 0..Len(Filter(Paginate(cfg.paginate, jobs[j].url))) :
                  timers' = timers \o
                      SubSeq(Filter(Paginate(cfg.paginate, jobs[j].url)), 1, k)]_vars

C20_Witness ==
    /\ cfg.paginate = "burst" /\ cfg.limit = 3
    /\ timers = <<UrlA, UrlB>>
    /\ nsched = 2 /\ limit <= 0

\* C18: when the request hook leaves a body on the context, the driver is not
\* invoked, the response hook runs once and fn gets (null, ctx) with that body.
C18_ShortCircuit ==
    (get.pc = "returned" /\ get.pre \in {"B1", "B2"}) =>
        /\ get.driverCalls = 0
        /\ get.responseHooks = 1
        /\ get.fnCalls = 1 /\ get.fnErr = "null" /\ get.fnCtx
        /\ get.body = get.pre

C18_Witness ==
    /\ get.pc = "returned" /\ get.pre = "B1" /\ get.url = UrlB
    /\ get.driverCalls = 0 /\ get.responseHooks = 1 /\ get.fnCtx

\* C19 as stated: on success the body is replaced exactly when the result is
\* not identical to the current body; on failure fn gets the error and the
\* response hook does not run.
C19_ReplacedIffDiffersFromBody ==
    (get.pc = "returned" /\ get.driverCalls = 1) =>
        IF get.err = "E"
        THEN get.fnErr = "E" /\ get.responseHooks = 0
        ELSE get.assigned <=> (get.res # get.bodyAtDone)

\* C19 amended: on success the body is replaced exactly when the result is
\* truthy and is not the context object itself; on failure fn gets the error
\* alone and neither the body changes nor the response hook runs.
C19_ReplacedIffTruthyAndNotCtx ==
    (get.pc = "returned" /\ get.driverCalls = 1) =>
        IF get.err = "E"
        THEN /\ get.fnErr = "E" /\ ~get.fnCtx /\ get.fnCalls = 1
             /\ get.responseHooks = 0
             /\ ~get.assigned /\ get.body = get.bodyAtDone
        ELSE /\ get.assigned <=> get.res \in {"B1", "B2"}
             /\ get.body = (IF get.res \in {"B1", "B2"} THEN get.res
                            ELSE get.bodyAtDone)
             /\ get.responseHooks = 1
             /\ get.fnCalls = 1 /\ get.fnErr = "null" /\ get.fnCtx

C19_Witness ==
    /\ get.pc = "returned" /\ get.driverCalls = 1 /\ get.err = "null"
    /\ get.res = "ctx" /\ get.bodyAtDone = "B1"
    /\ ~get.assigned /\ get.body = "B1"

====
